---------------------------- MODULE Spec2Model ----------------------------
(***************************************************************************)
(* Stock / sale / debt consistency engine of the vukanet backend.          *)
(*                                                                         *)
(* The relational store is the five tables products, sales, movements,     *)
(* debts and payments, and the sync_queue table; each is a function from   *)
(* primary key to row.  The                                                *)
(* route handlers are pure operators from (database, caller, request) to   *)
(* (database, reply); an action applies one handler and records its reply  *)
(* in `response`.  Rows carry the columns the consistency rules read or    *)
(* write; descriptive columns (names, notes, user ids, timestamps, the     *)
(* price columns of a stock movement) are left out.                        *)
(***************************************************************************)
EXTENDS Integers, Sequences, FiniteSets, TLC

VARIABLES products, sales, movements, debts, payments, response, reqs,
          syncQueue, syncStore, call, pushes

dbVars == <<products, sales, movements, debts, payments>>
clientVars == <<syncStore, call, pushes>>
vars == <<products, sales, movements, debts, payments, response, reqs,
          syncQueue, syncStore, call, pushes>>

(***************************************************************************)
(* Bounds of the model.                                                    *)
(***************************************************************************)
MaxStock == 2
MaxQty == 2
MaxMoveQty == 1
MaxSales == 1
MaxMovements == 2
MaxPayments == 2
MaxPay == 2
MaxAdj == 2
MaxBatch == 2
MaxTime == 2
MaxQueue == 2
MaxTries == 4
MaxProducts == 4
MaxItems == 3
NumRequests == 2

(***************************************************************************)
(* Fixed data of the model: two stores, two products (both of store s1),   *)
(* a seller of each store and a global admin.                              *)
(***************************************************************************)
Stores == {"s1", "s2"}
NoStore == "none"
\* Primary keys are numbers: products 1 and 2 exist from the start, 3 is a
\* key a client may create, 0 is the key of no product.
ProductIds == {1, 2}
UnknownProducts == {0}
\* A null reference column.
NoRef == 0

Seller1 == [id |-> "u1", role |-> "SELLER", storeId |-> "s1"]
Seller2 == [id |-> "u2", role |-> "SELLER", storeId |-> "s2"]
Admin == [id |-> "adm", role |-> "ADMIN", storeId |-> NoStore]
Callers == {Seller1, Seller2, Admin}

SaleTypes == {"UNIT", "PACKAGE"}
MovementTypes == {"IN", "OUT", "ADJUSTMENT", "TRANSFER"}

(***************************************************************************)
(* Helpers over tables.                                                    *)
(***************************************************************************)
Abs(n) == IF n < 0 THEN -n ELSE n
Max(a, b) == IF a >= b THEN a ELSE b

\* Insert or overwrite row v under key k.
Put(t, k, v) == [x \in (DOMAIN t) \cup {k} |-> IF x = k THEN v ELSE t[x]]

\* A primary key no row of the table uses (uuid() default of the schema).
FreshId(t) == CHOOSE i \in 1..(Cardinality(DOMAIN t) + 1) : i \notin DOMAIN t

DB == [products |-> products, sales |-> sales, movements |-> movements,
       debts |-> debts, payments |-> payments]

\* Bound of the model: no product is stocked beyond MaxStock.
StockCapped(d) ==
    \A p \in DOMAIN d.products : d.products[p].currentStock <= MaxStock

SetDBUncapped(d) ==
    /\ products' = d.products
    /\ sales' = d.sales
    /\ movements' = d.movements
    /\ debts' = d.debts
    /\ payments' = d.payments

\* The tables of the current state are those of d.
SetDBNow(d) ==
    /\ products = d.products
    /\ sales = d.sales
    /\ movements = d.movements
    /\ debts = d.debts
    /\ payments = d.payments

SetDB(d) ==
    /\ StockCapped(d)
    /\ products' = d.products
    /\ sales' = d.sales
    /\ movements' = d.movements
    /\ debts' = d.debts
    /\ payments' = d.payments

\* prisma.$transaction: the callback's writes commit together, or, when a
\* statement throws, none of them does.  `partial` is the database as the
\* statements before the failing one left it.
TxOutcomeNoRollback(before, partial, final, failed) ==
    IF failed THEN partial ELSE final

TxOutcome(before, partial, final, failed) ==
    IF failed THEN before ELSE final

(***************************************************************************)
(* POST /sales                                                             *)
(***************************************************************************)
RequiredStockQuantityOnly(data, product) == data.quantity

RequiredStock(data, product) ==
    IF data.saleType = "PACKAGE"
    THEN data.quantity * product.unitsPerPackage
    ELSE data.quantity

SaleUnitPriceAlwaysUnit(data, product) == product.unitSalePrice

SaleUnitPrice(data, product) ==
    IF data.saleType = "PACKAGE"
    THEN product.packageSalePrice
    ELSE product.unitSalePrice

\* The statements of the transaction callback, applied in order to d: the
\* database after the first k of them (k = 0..4) ran.
SaleTxAfter(d, data, product, k) ==
    LET requiredStock == RequiredStock(data, product)
        unitPrice == SaleUnitPrice(data, product)
        totalAmount == unitPrice * data.quantity
        saleId == FreshId(d.sales)
        sale == [productId |-> data.productId, storeId |-> data.storeId,
                 quantity |-> data.quantity, saleType |-> data.saleType,
                 unitPrice |-> unitPrice, totalAmount |-> totalAmount,
                 isDebt |-> data.isDebt, clientName |-> data.clientName]
        d1 == [d EXCEPT !.sales = Put(@, saleId, sale)]
        d2 == [d1 EXCEPT !.products[data.productId].currentStock =
                              @ - requiredStock]
        movement == [type |-> "OUT", quantity |-> requiredStock,
                     reason |-> "Sale", reference |-> saleId,
                     productId |-> data.productId, storeId |-> data.storeId]
        d3 == [d2 EXCEPT !.movements = Put(@, FreshId(@), movement)]
        debt == [amount |-> totalAmount, paidAmount |-> 0,
                 remainingAmount |-> totalAmount, status |-> "PENDING",
                 clientName |-> IF data.clientName = "" THEN "Unknown"
                                ELSE data.clientName,
                 saleId |-> saleId, storeId |-> data.storeId]
        d4 == IF data.isDebt
              THEN [d3 EXCEPT !.debts = Put(@, FreshId(@), debt)]
              ELSE d3
    IN CASE k = 0 -> d
         [] k = 1 -> d1
         [] k = 2 -> d2
         [] k = 3 -> d3
         [] OTHER -> d4

\* The transaction of createSale over the database d, with the product row
\* read before it.  failAt = 0: no statement throws; failAt = k > 0:
\* statement k throws.
SaleTx(d, data, product, failAt) ==
    TxOutcome(d, SaleTxAfter(d, data, product, failAt - 1),
              SaleTxAfter(d, data, product, 4), failAt # 0)

\* The store access check of the handlers that take storeId in the body.
StoreAccessDenied(user, storeId) ==
    user.role # "ADMIN" /\ user.storeId # storeId

CreateSale(d, user, data, failAt) ==
    IF StoreAccessDenied(user, data.storeId)
    THEN [db |-> d, status |-> 403]
    ELSE IF data.productId \notin DOMAIN d.products
    THEN [db |-> d, status |-> 404]
    ELSE LET product == d.products[data.productId]
         IN IF product.currentStock < RequiredStock(data, product)
            THEN [db |-> d, status |-> 400]
            ELSE [db |-> SaleTx(d, data, product, failAt),
                  status |-> IF failAt # 0 THEN 500 ELSE 201]

ClientNames == {""}

SaleRequests ==
    [productId : ProductIds \cup UnknownProducts, quantity : 1..MaxQty,
     saleType : SaleTypes, isDebt : BOOLEAN, clientName : ClientNames,
     storeId : Stores]

\* The statements of a transaction that may throw: any of the n statements
\* when the request reaches the transaction, none otherwise.
FailPoints(status, n) == IF status = 201 THEN 0..n ELSE {0}

CreateSaleAct ==
    /\ Cardinality(DOMAIN sales) < MaxSales
    /\ Cardinality(DOMAIN movements) < MaxMovements
    /\ \E user \in Callers, data \in SaleRequests :
      \E failAt \in FailPoints(CreateSale(DB, user, data, 0).status,
                               IF data.isDebt THEN 4 ELSE 3) :
        /\ LET r == CreateSale(DB, user, data, failAt)
           IN /\ SetDB(r.db)
              /\ response' = [op |-> "createSale", status |-> r.status]
        /\ UNCHANGED <<reqs, syncQueue, clientVars>>

(***************************************************************************)
(* POST /stock                                                             *)
(***************************************************************************)
StockChangeUnsigned(data) == Abs(data.quantity)

StockChange(data) ==
    CASE data.type = "IN" -> Abs(data.quantity)
      [] data.type = "OUT" -> -Abs(data.quantity)
      [] data.type = "ADJUSTMENT" -> data.quantity
      [] data.type = "TRANSFER" -> -Abs(data.quantity)

NewStockUnclamped(product, data) == product.currentStock + StockChange(data)

NewStock(product, data) == Max(0, product.currentStock + StockChange(data))

MovementTxAfter(d, data, product, k) ==
    LET movement == [type |-> data.type, quantity |-> Abs(data.quantity),
                     reason |-> "", reference |-> data.reference,
                     productId |-> data.productId, storeId |-> data.storeId]
        d1 == [d EXCEPT !.movements = Put(@, FreshId(@), movement)]
        d2 == [d1 EXCEPT !.products[data.productId].currentStock =
                              NewStock(product, data)]
    IN CASE k = 0 -> d
         [] k = 1 -> d1
         [] OTHER -> d2

CreateStockMovement(d, user, data, failAt) ==
    IF StoreAccessDenied(user, data.storeId)
    THEN [db |-> d, status |-> 403]
    ELSE IF data.productId \notin DOMAIN d.products
    THEN [db |-> d, status |-> 404]
    ELSE LET product == d.products[data.productId]
         IN IF data.type = "OUT" /\ product.currentStock < Abs(data.quantity)
            THEN [db |-> d, status |-> 400]
            ELSE [db |-> TxOutcome(d,
                                   MovementTxAfter(d, data, product, failAt - 1),
                                   MovementTxAfter(d, data, product, 2),
                                   failAt # 0),
                  status |-> IF failAt # 0 THEN 500 ELSE 201]

MovementRequests ==
    [productId : ProductIds \cup UnknownProducts, type : MovementTypes,
     quantity : (-MaxMoveQty)..MaxMoveQty, reference : {NoRef}, storeId : Stores]

CreateStockMovementAct ==
    /\ Cardinality(DOMAIN movements) < MaxMovements
    /\ \E user \in Callers, data \in MovementRequests :
      \E failAt \in FailPoints(CreateStockMovement(DB, user, data, 0).status, 2) :
        /\ LET r == CreateStockMovement(DB, user, data, failAt)
           IN /\ SetDB(r.db)
              /\ response' = [op |-> "createStockMovement", status |-> r.status]
        /\ UNCHANGED <<reqs, syncQueue, clientVars>>

(***************************************************************************)
(* POST /stock/bulk-adjustment                                             *)
(***************************************************************************)
\* A loop that writes a movement for every adjustment, changed or not.
RECURSIVE BulkLoopAlwaysMove(_, _, _, _)
BulkLoopAlwaysMove(d, found, storeId, adjustments) ==
    IF adjustments = <<>> THEN d
    ELSE LET adjustment == Head(adjustments)
             product == found[adjustment.productId]
             movement == [type |-> "ADJUSTMENT",
                          quantity |-> Abs(adjustment.newStock -
                                           product.currentStock),
                          reason |-> "Bulk adjustment", reference |-> NoRef,
                          productId |-> adjustment.productId,
                          storeId |-> storeId]
         IN BulkLoopAlwaysMove(
                [d EXCEPT !.movements = Put(@, FreshId(@), movement),
                          !.products[adjustment.productId].currentStock =
                               adjustment.newStock],
                found, storeId, Tail(adjustments))

\* products.find(p => p.id === adjustment.productId) over the rows read
\* before the transaction.
RECURSIVE BulkLoop(_, _, _, _)
BulkLoop(d, found, storeId, adjustments) ==
    IF adjustments = <<>> THEN d
    ELSE LET adjustment == Head(adjustments)
             product == found[adjustment.productId]
             stockDifference == adjustment.newStock - product.currentStock
             movement == [type |-> "ADJUSTMENT",
                          quantity |-> Abs(stockDifference),
                          reason |-> "Bulk adjustment", reference |-> NoRef,
                          productId |-> adjustment.productId,
                          storeId |-> storeId]
             d1 == IF stockDifference # 0
                   THEN [d EXCEPT !.movements = Put(@, FreshId(@), movement),
                                  !.products[adjustment.productId].currentStock =
                                       adjustment.newStock]
                   ELSE d
         IN BulkLoop(d1, found, storeId, Tail(adjustments))

\* A handler without the count of the products found.
BulkAdjustmentSkipMissing(d, user, data, failed) ==
    IF StoreAccessDenied(user, data.storeId)
    THEN [db |-> d, status |-> 403]
    ELSE LET foundIds == {p \in DOMAIN d.products :
                             /\ \E i \in DOMAIN data.adjustments :
                                   data.adjustments[i].productId = p
                             /\ d.products[p].storeId = data.storeId}
             found == [p \in foundIds |-> d.products[p]]
             valid == SelectSeq(data.adjustments,
                                LAMBDA adj : adj.productId \in foundIds)
         IN [db |-> TxOutcome(d, d, BulkLoop(d, found, data.storeId, valid),
                              failed),
             status |-> IF failed THEN 500 ELSE 201]

BulkAdjustment(d, user, data, failed) ==
    IF StoreAccessDenied(user, data.storeId)
    THEN [db |-> d, status |-> 403]
    ELSE LET productIds == [i \in DOMAIN data.adjustments |->
                               data.adjustments[i].productId]
             foundIds == {p \in DOMAIN d.products :
                             /\ \E i \in DOMAIN productIds : productIds[i] = p
                             /\ d.products[p].storeId = data.storeId}
             found == [p \in foundIds |-> d.products[p]]
         IN IF Cardinality(foundIds) # Len(productIds)
            THEN [db |-> d, status |-> 400]
            ELSE [db |-> TxOutcome(d, d,
                                   BulkLoop(d, found, data.storeId,
                                            data.adjustments),
                                   failed),
                  status |-> IF failed THEN 500 ELSE 201]

Adjustments == [productId : ProductIds \cup UnknownProducts,
                newStock : 0..MaxStock]

AdjustmentLists ==
    UNION {[1..n -> Adjustments] : n \in 0..MaxAdj}

BulkRequests == [storeId : Stores, adjustments : AdjustmentLists]

BulkAdjustmentAct ==
    \E user \in Callers, data \in BulkRequests :
        /\ Cardinality(DOMAIN movements) + Len(data.adjustments) <= MaxMovements
        /\ \E failAt \in FailPoints(BulkAdjustment(DB, user, data, FALSE).status, 1) :
              LET r == BulkAdjustment(DB, user, data, failAt # 0)
              IN /\ SetDB(r.db)
                 /\ response' = [op |-> "bulkAdjustment", status |-> r.status]
        /\ UNCHANGED <<reqs, syncQueue, clientVars>>

(***************************************************************************)
(* POST /debts/:id/payments                                                *)
(***************************************************************************)
NewRemainingAmountFromRemaining(debt, newPaidAmount) ==
    debt.remainingAmount - newPaidAmount

NewRemainingAmount(debt, newPaidAmount) == debt.amount - newPaidAmount

\* A transaction that never marks the debt as paid.
PaymentTxAfterAlwaysPartial(d, id, data, debt, k) ==
    LET payment == [debtId |-> id, amount |-> data.amount]
        d1 == [d EXCEPT !.payments = Put(@, FreshId(@), payment)]
        newPaidAmount == debt.paidAmount + data.amount
        d2 == [d1 EXCEPT !.debts[id].paidAmount = newPaidAmount,
                         !.debts[id].remainingAmount =
                              NewRemainingAmount(debt, newPaidAmount),
                         !.debts[id].status = "PARTIAL"]
    IN CASE k = 0 -> d
         [] k = 1 -> d1
         [] OTHER -> d2

PaymentTxAfter(d, id, data, debt, k) ==
    LET payment == [debtId |-> id, amount |-> data.amount]
        d1 == [d EXCEPT !.payments = Put(@, FreshId(@), payment)]
        newPaidAmount == debt.paidAmount + data.amount
        newRemainingAmount == NewRemainingAmount(debt, newPaidAmount)
        newStatus == IF newRemainingAmount = 0 THEN "PAID" ELSE "PARTIAL"
        d2 == [d1 EXCEPT !.debts[id].paidAmount = newPaidAmount,
                         !.debts[id].remainingAmount = newRemainingAmount,
                         !.debts[id].status = newStatus]
    IN CASE k = 0 -> d
         [] k = 1 -> d1
         [] OTHER -> d2

\* A handler without the validation of the payment amount.
AddPaymentNoLimit(d, user, id, data, failAt) ==
    IF id \notin DOMAIN d.debts
    THEN [db |-> d, status |-> 404]
    ELSE LET debt == d.debts[id]
         IN IF user.role # "ADMIN" /\ user.storeId # debt.storeId
            THEN [db |-> d, status |-> 403]
            ELSE [db |-> TxOutcome(d,
                                   PaymentTxAfter(d, id, data, debt, failAt - 1),
                                   PaymentTxAfter(d, id, data, debt, 2),
                                   failAt # 0),
                  status |-> IF failAt # 0 THEN 500 ELSE 201]

AddPayment(d, user, id, data, failAt) ==
    IF id \notin DOMAIN d.debts
    THEN [db |-> d, status |-> 404]
    ELSE LET debt == d.debts[id]
         IN IF user.role # "ADMIN" /\ user.storeId # debt.storeId
            THEN [db |-> d, status |-> 403]
            ELSE IF data.amount > debt.remainingAmount
            THEN [db |-> d, status |-> 400]
            ELSE [db |-> TxOutcome(d,
                                   PaymentTxAfter(d, id, data, debt, failAt - 1),
                                   PaymentTxAfter(d, id, data, debt, 2),
                                   failAt # 0),
                  status |-> IF failAt # 0 THEN 500 ELSE 201]

AddPaymentAct ==
    /\ Cardinality(DOMAIN payments) < MaxPayments
    /\ \E user \in Callers, id \in 1..MaxSales, amount \in 1..MaxPay :
      \E failAt \in FailPoints(AddPayment(DB, user, id, [amount |-> amount], 0).status, 2) :
        /\ LET r == AddPayment(DB, user, id, [amount |-> amount], failAt)
           IN /\ SetDB(r.db)
              /\ response' = [op |-> "addPayment", status |-> r.status]
        /\ UNCHANGED <<reqs, syncQueue, clientVars>>

(***************************************************************************)
(* POST /sync/push                                                         *)
(*                                                                         *)
(* An item's data is a record holding any subset of a table's columns.     *)
(***************************************************************************)
Has(data, f) == f \in DOMAIN data

\* { ...row, ...data }
Merge(row, data) ==
    [f \in (DOMAIN row) \cup (DOMAIN data) |->
        IF f \in DOMAIN data THEN data[f] ELSE row[f]]

\* data.storeId || storeId
StoreOf(data, storeId) == IF Has(data, "storeId") THEN data.storeId ELSE storeId

ProductColumns == {"storeId", "unitsPerPackage", "currentStock",
                   "unitSalePrice", "packageSalePrice", "isActive"}
ProductRequired == {"unitsPerPackage", "unitSalePrice", "packageSalePrice"}
ProductDefaults == [currentStock |-> 0, isActive |-> TRUE]

SaleColumns == {"productId", "storeId", "quantity", "saleType", "unitPrice",
                "totalAmount", "isDebt", "clientName"}
SaleRequired == {"productId", "quantity", "unitPrice", "totalAmount"}
SaleDefaults == [saleType |-> "UNIT", isDebt |-> FALSE, clientName |-> ""]

MovementColumns == {"type", "quantity", "reason", "reference", "productId",
                    "storeId"}
MovementRequired == {"type", "quantity", "productId"}
MovementDefaults == [reason |-> "", reference |-> NoRef]

DebtColumns == {"amount", "paidAmount", "remainingAmount", "status",
                "clientName", "saleId", "storeId"}
DebtRequired == {"amount", "remainingAmount", "clientName", "saleId"}
DebtDefaults == [paidAmount |-> 0, status |-> "PENDING"]

\* The insert is accepted by the client library and the foreign key on the
\* store: only known columns, every required one, an existing store.
Insertable(data, columns, required, store) ==
    /\ DOMAIN data \subseteq columns
    /\ required \subseteq DOMAIN data
    /\ store \in Stores

\* @unique on Debt.saleId: no other debt row refers to the sale.
DebtSaleIdUniqueOff(debts_, id, saleId) == TRUE

DebtSaleIdUnique(debts_, id, saleId) ==
    \A i \in DOMAIN debts_ : i # id => debts_[i].saleId # saleId

Thrown(d) == [db |-> d, ok |-> FALSE]
Done(d) == [db |-> d, ok |-> TRUE]

HandleProductSync(d, item, storeId) ==
    LET recordId == item.recordId
        data == item.data
    IN CASE item.action = "CREATE" ->
              IF /\ recordId \notin DOMAIN d.products
                 /\ Insertable(data, ProductColumns, ProductRequired,
                               StoreOf(data, storeId))
              THEN Done([d EXCEPT !.products =
                           Put(@, recordId,
                               [Merge(ProductDefaults, data)
                                  EXCEPT !.storeId = StoreOf(data, storeId)])])
              ELSE Thrown(d)
         [] item.action = "UPDATE" ->
              IF /\ recordId \in DOMAIN d.products
                 /\ DOMAIN data \subseteq ProductColumns
                 /\ Has(data, "storeId") => data.storeId \in Stores
              THEN Done([d EXCEPT !.products[recordId] = Merge(@, data)])
              ELSE Thrown(d)
         [] item.action = "DELETE" ->
              IF recordId \in DOMAIN d.products
              THEN Done([d EXCEPT !.products[recordId].isActive = FALSE])
              ELSE Thrown(d)
         [] OTHER -> Thrown(d)

HandleSaleSync(d, item, storeId) ==
    LET recordId == item.recordId
        data == item.data
    IN CASE item.action = "CREATE" ->
              IF /\ recordId \notin DOMAIN d.sales
                 /\ Insertable(data, SaleColumns, SaleRequired,
                               StoreOf(data, storeId))
                 /\ data.productId \in DOMAIN d.products
              THEN Done([d EXCEPT !.sales =
                           Put(@, recordId,
                               [Merge(SaleDefaults, data)
                                  EXCEPT !.storeId = StoreOf(data, storeId)])])
              ELSE Thrown(d)
         [] item.action = "UPDATE" ->
              IF /\ recordId \in DOMAIN d.sales
                 /\ DOMAIN data \subseteq SaleColumns
                 /\ Has(data, "storeId") => data.storeId \in Stores
                 /\ Has(data, "productId") => data.productId \in DOMAIN d.products
              THEN Done([d EXCEPT !.sales[recordId] = Merge(@, data)])
              ELSE Thrown(d)
         [] OTHER -> Thrown(d)

\* A handler that stores a CREATE whose id is taken under another key.
HandleStockMovementSyncFreshKey(d, item, storeId) ==
    LET data == item.data
        recordId == IF item.recordId \in DOMAIN d.movements
                    THEN FreshId(d.movements) ELSE item.recordId
    IN IF item.action = "CREATE"
       THEN IF /\ Insertable(data, MovementColumns, MovementRequired,
                             StoreOf(data, storeId))
               /\ data.productId \in DOMAIN d.products
            THEN Done([d EXCEPT !.movements =
                         Put(@, recordId,
                             [Merge(MovementDefaults, data)
                                EXCEPT !.storeId = StoreOf(data, storeId)])])
            ELSE Thrown(d)
       ELSE Thrown(d)

HandleStockMovementSync(d, item, storeId) ==
    LET recordId == item.recordId
        data == item.data
    IN IF item.action = "CREATE"
       THEN IF /\ recordId \notin DOMAIN d.movements
               /\ Insertable(data, MovementColumns, MovementRequired,
                             StoreOf(data, storeId))
               /\ data.productId \in DOMAIN d.products
            THEN Done([d EXCEPT !.movements =
                         Put(@, recordId,
                             [Merge(MovementDefaults, data)
                                EXCEPT !.storeId = StoreOf(data, storeId)])])
            ELSE Thrown(d)
       ELSE Thrown(d)

HandleDebtSync(d, item, storeId) ==
    LET recordId == item.recordId
        data == item.data
    IN CASE item.action = "CREATE" ->
              IF /\ recordId \notin DOMAIN d.debts
                 /\ Insertable(data, DebtColumns, DebtRequired,
                               StoreOf(data, storeId))
                 /\ data.saleId \in DOMAIN d.sales
                 /\ DebtSaleIdUnique(d.debts, recordId, data.saleId)
              THEN Done([d EXCEPT !.debts =
                           Put(@, recordId,
                               [Merge(DebtDefaults, data)
                                  EXCEPT !.storeId = StoreOf(data, storeId)])])
              ELSE Thrown(d)
         [] item.action = "UPDATE" ->
              IF /\ recordId \in DOMAIN d.debts
                 /\ DOMAIN data \subseteq DebtColumns
                 /\ Has(data, "storeId") => data.storeId \in Stores
                 /\ Has(data, "saleId") =>
                       /\ data.saleId \in DOMAIN d.sales
                       /\ DebtSaleIdUnique(d.debts, recordId, data.saleId)
              THEN Done([d EXCEPT !.debts[recordId] = Merge(@, data)])
              ELSE Thrown(d)
         [] OTHER -> Thrown(d)

\* One iteration of the loop over the items: the store check, the dispatch
\* on tableName and the catch of whatever the handler throws.
PushItem(d, user, item) ==
    IF /\ Has(item.data, "storeId")
       /\ item.data.storeId # user.storeId
       /\ user.role # "ADMIN"
    THEN [db |-> d,
          result |-> [recordId |-> item.recordId, status |-> "error",
                      error |-> "Unauthorized store access"]]
    ELSE IF item.tableName \notin {"products", "sales", "stock_movements",
                                   "debts"}
    THEN [db |-> d,
          result |-> [recordId |-> item.recordId, status |-> "error",
                      error |-> "Unsupported table"]]
    ELSE LET h == CASE item.tableName = "products" ->
                         HandleProductSync(d, item, user.storeId)
                    [] item.tableName = "sales" ->
                         HandleSaleSync(d, item, user.storeId)
                    [] item.tableName = "stock_movements" ->
                         HandleStockMovementSync(d, item, user.storeId)
                    [] item.tableName = "debts" ->
                         HandleDebtSync(d, item, user.storeId)
         IN IF h.ok
            THEN [db |-> h.db,
                  result |-> [recordId |-> item.recordId,
                              status |-> "success", error |-> ""]]
            ELSE [db |-> d,
                  result |-> [recordId |-> item.recordId, status |-> "error",
                              error |-> "exception"]]

\* A loop that gives up at the first failing item.
RECURSIVE PushLoopAbort(_, _, _, _)
PushLoopAbort(d, user, items, results) ==
    IF items = <<>> THEN [db |-> d, results |-> results]
    ELSE LET step == PushItem(d, user, Head(items))
         IN IF step.result.status = "error"
            THEN [db |-> d, results |-> Append(results, step.result)]
            ELSE PushLoopAbort(step.db, user, Tail(items),
                               Append(results, step.result))

RECURSIVE PushLoop(_, _, _, _)
PushLoop(d, user, items, results) ==
    IF items = <<>> THEN [db |-> d, results |-> results]
    ELSE LET step == PushItem(d, user, Head(items))
         IN PushLoop(step.db, user, Tail(items),
                     Append(results, step.result))

Push(d, user, items) == PushLoop(d, user, items, <<>>)

Item(action, tableName, recordId, data) ==
    [action |-> action, tableName |-> tableName, recordId |-> recordId,
     data |-> data]

\* The items a client pushes in this model.
SyncItems ==
    { Item("CREATE", "products", 3,
           [storeId |-> "s2", unitsPerPackage |-> 1, unitSalePrice |-> 2,
            packageSalePrice |-> 3, currentStock |-> 1]),
      Item("UPDATE", "products", 1, [unitSalePrice |-> 4]),
      Item("CREATE", "sales", 1,
           [storeId |-> "s1", productId |-> 1, quantity |-> 1,
            unitPrice |-> 2, totalAmount |-> 2]),
      Item("DELETE", "sales", 1, <<>>),
      Item("CREATE", "stock_movements", 1,
           [storeId |-> "s1", productId |-> 1, type |-> "OUT",
            quantity |-> 1, reference |-> 1]),
      Item("CREATE", "debts", 1,
           [saleId |-> 1, amount |-> 2, remainingAmount |-> 2,
            clientName |-> "Ann", storeId |-> "s1"]),
      Item("CREATE", "debts", 2,
           [saleId |-> 1, amount |-> 2, remainingAmount |-> 2,
            clientName |-> "Ann"]),
      Item("CREATE", "users", 9, <<>>) }

Batches == UNION {[1..n -> SyncItems] : n \in 0..MaxBatch}

StatusesOf(results) == [i \in DOMAIN results |-> results[i].status]

SyncPushAct ==
    \E user \in Callers, items \in Batches :
        LET r == Push(DB, user, items)
        IN /\ Cardinality(DOMAIN r.db.sales) <= MaxSales
           /\ Cardinality(DOMAIN r.db.movements) <= MaxMovements
           /\ SetDB(r.db)
           /\ response' = [op |-> "push", status |-> StatusesOf(r.results)]
           /\ UNCHANGED <<reqs, syncQueue, clientVars>>

\* A push of one item that overwrites columns of a row.
UpdateItems ==
    { Item("UPDATE", "products", 1, [currentStock |-> 0]),
      Item("UPDATE", "sales", 1, [quantity |-> MaxQty]),
      Item("UPDATE", "debts", 1, [paidAmount |-> 1]) }

SyncUpdateAct ==
    \E user \in Callers, item \in UpdateItems :
        LET r == Push(DB, user, <<item>>)
        IN /\ SetDB(r.db)
           /\ response' = [op |-> "push", status |-> StatusesOf(r.results)]
           /\ UNCHANGED <<reqs, syncQueue, clientVars>>

(***************************************************************************)
(* POST /sync/pull                                                         *)
(*                                                                         *)
(* Rows carry no updatedAt column here: the timestamps of the rows are an  *)
(* input of the operator, one time per row of the three tables read.       *)
(***************************************************************************)
\* A seller that is assigned to no store (User.storeId is optional).
Unassigned == [id |-> "u0", role |-> "SELLER", storeId |-> NoStore]
PullCallers == Callers \cup {Unassigned}

\* new Date(0) and the times after it.
Epoch == 0
Times == Epoch..MaxTime

Stamps(d) ==
    [products : [DOMAIN d.products -> Times \ {Epoch}],
     sales : [DOMAIN d.sales -> Times \ {Epoch}],
     debts : [DOMAIN d.debts -> Times \ {Epoch}]]

\* where: { storeId: role === 'ADMIN' ? undefined : storeId,
\*          updatedAt: { gt: since } }
\* A filter whose value is undefined is no filter.
PullWhere(user, since, row, updatedAt) ==
    /\ (user.role = "ADMIN" \/ user.storeId = NoStore)
          \/ row.storeId = user.storeId
    /\ updatedAt > since

Change(tableName, recordId, row) ==
    [action |-> "UPDATE", tableName |-> tableName, recordId |-> recordId,
     storeId |-> row.storeId]

Pull(d, stamps, user, since) ==
    [db |-> d,
     changes |->
        {Change("products", p, d.products[p]) :
            p \in {x \in DOMAIN d.products :
                      PullWhere(user, since, d.products[x], stamps.products[x])}}
        \cup
        {Change("sales", i, d.sales[i]) :
            i \in {x \in DOMAIN d.sales :
                      PullWhere(user, since, d.sales[x], stamps.sales[x])}}
        \cup
        {Change("debts", i, d.debts[i]) :
            i \in {x \in DOMAIN d.debts :
                      PullWhere(user, since, d.debts[x], stamps.debts[x])}}]

PullAct ==
    \E user \in PullCallers, since \in Times, stamps \in Stamps(DB) :
        LET r == Pull(DB, stamps, user, since)
        IN /\ SetDB(r.db)
           /\ response' = [op |-> "pull", status |-> Cardinality(r.changes)]
           /\ UNCHANGED <<reqs, syncQueue, clientVars>>

(***************************************************************************)
(* POST /sync/retry                                                        *)
(*                                                                         *)
(* The sync_queue table: each row is a queued item of one user with its    *)
(* status, its attempts so far, its own maxAttempts and its last error.    *)
(* No handler of the backend inserts rows; the table starts with any rows. *)
(***************************************************************************)
\* attempts: { lt: 3 }
RetryLimit == 3
ClientRetryLimit == 3
\* maxAttempts Int @default(3)
DefaultMaxAttempts == 3

NoError == ""

QueueItems == {item \in SyncItems : item.tableName = "stock_movements"}

QueueRows ==
    {row \in [userId : {Seller1.id, Seller2.id},
              status : {"PENDING", "FAILED"},
              attempts : 0..MaxTries,
              maxAttempts : {DefaultMaxAttempts, MaxTries + 1},
              error : {NoError, "failed"},
              item : QueueItems] :
        (row.status = "FAILED") <=> (row.error # NoError)}

\* findMany({where: {userId, status: 'FAILED', attempts: {lt: 3}}})
FailedItems(queue, user) ==
    {k \in DOMAIN queue : /\ queue[k].userId = user.id
                          /\ queue[k].status = "FAILED"
                          /\ queue[k].attempts < RetryLimit}

Retry(d, queue, user) ==
    LET failedItems == FailedItems(queue, user)
    IN [db |-> d,
        queue |-> [k \in DOMAIN queue |->
                     IF k \in failedItems
                     THEN [queue[k] EXCEPT !.status = "PENDING",
                                           !.attempts = @ + 1,
                                           !.error = NoError]
                     ELSE queue[k]],
        queued |-> Cardinality(failedItems)]

RetryAct ==
    \E user \in Callers :
        LET r == Retry(DB, syncQueue, user)
        IN /\ SetDB(r.db)
           /\ syncQueue' = r.queue
           /\ response' = [op |-> "retry", status |-> r.queued]
           /\ UNCHANGED <<reqs, clientVars>>

(***************************************************************************)
(* POST /products                                                          *)
(*                                                                         *)
(* Two separate statements, not a transaction: failAt = 1 is a throw of    *)
(* product.create, failAt = 2 a throw of stockMovement.create.             *)
(***************************************************************************)
CreateProduct(d, user, data, failAt) ==
    IF StoreAccessDenied(user, data.storeId)
    THEN [db |-> d, status |-> 403]
    ELSE IF failAt = 1
    THEN [db |-> d, status |-> 500]
    ELSE LET id == FreshId(d.products)
             product == [storeId |-> data.storeId,
                         unitsPerPackage |-> data.unitsPerPackage,
                         currentStock |-> data.currentStock,
                         unitSalePrice |-> data.unitSalePrice,
                         packageSalePrice |-> data.packageSalePrice,
                         isActive |-> TRUE]
             d1 == [d EXCEPT !.products = Put(@, id, product)]
             movement == [type |-> "IN", quantity |-> product.currentStock,
                          reason |-> "Initial stock", reference |-> NoRef,
                          productId |-> id, storeId |-> product.storeId]
         IN IF product.currentStock > 0
            THEN IF failAt = 2
                 THEN [db |-> d1, status |-> 500]
                 ELSE [db |-> [d1 EXCEPT !.movements = Put(@, FreshId(@), movement)],
                       status |-> 201]
            ELSE [db |-> d1, status |-> IF failAt = 2 THEN 500 ELSE 201]

\* currentStock: data.currentStock || 0, an absent stock being 0.
ProductRequests ==
    [storeId : Stores, currentStock : 0..MaxStock, unitsPerPackage : {1},
     unitSalePrice : {2}, packageSalePrice : {3}]

CreateProductAct ==
    /\ Cardinality(DOMAIN products) < MaxProducts
    /\ Cardinality(DOMAIN movements) < MaxMovements
    /\ \E user \in Callers, data \in ProductRequests, failAt \in 0..2 :
          LET r == CreateProduct(DB, user, data, failAt)
          IN /\ (failAt = 2 => data.currentStock > 0)
             /\ (failAt # 0 => ~StoreAccessDenied(user, data.storeId))
             /\ SetDB(r.db)
             /\ response' = [op |-> "createProduct", status |-> r.status]
             /\ UNCHANGED <<reqs, syncQueue, clientVars>>

(***************************************************************************)
(* PUT /products/:id, PUT /sales/:id, PUT /debts/:id                       *)
(*                                                                         *)
(* A body is a record of any keys; the handler's schema keeps the keys it  *)
(* declares and drops the others.                                          *)
(***************************************************************************)
\* z.object(...).parse: unknown keys are stripped.
Strip(data, keys) == [f \in (DOMAIN data) \cap keys |-> data[f]]

\* productSchema.partial()
ProductSchemaKeys == {"unitsPerPackage", "currentStock", "unitSalePrice",
                      "packageSalePrice", "storeId"}

UpdateProduct(d, user, id, body) ==
    LET updateData == Strip(body, ProductSchemaKeys)
    IN IF id \notin DOMAIN d.products
       THEN [db |-> d, status |-> 404]
       ELSE IF user.role # "ADMIN" /\ user.storeId # d.products[id].storeId
       THEN [db |-> d, status |-> 403]
       ELSE [db |-> [d EXCEPT !.products[id] = Merge(@, updateData)],
             status |-> 200]

ProductBodies == {[unitSalePrice |-> 3], [currentStock |-> 0]}

UpdateProductAct ==
    \E user \in Callers, id \in ProductIds \cup UnknownProducts,
       body \in ProductBodies :
        LET r == UpdateProduct(DB, user, id, body)
        IN /\ SetDB(r.db)
           /\ response' = [op |-> "updateProduct", status |-> r.status]
           /\ UNCHANGED <<reqs, syncQueue, clientVars>>

\* updateSchema of updateSale and of the debt update: clientName,
\* clientPhone, notes (and dueDate for a debt).
MetadataKeys == {"clientName"}

UpdateSale(d, user, id, body) ==
    LET data == Strip(body, MetadataKeys)
    IN IF id \notin DOMAIN d.sales
       THEN [db |-> d, status |-> 404]
       ELSE IF user.role # "ADMIN" /\ user.storeId # d.sales[id].storeId
       THEN [db |-> d, status |-> 403]
       ELSE [db |-> [d EXCEPT !.sales[id] = Merge(@, data)], status |-> 200]

SaleBodies == {[clientName |-> "Ann"], [quantity |-> MaxQty]}

UpdateSaleAct ==
    \E user \in Callers, id \in 1..MaxSales, body \in SaleBodies :
        LET r == UpdateSale(DB, user, id, body)
        IN /\ SetDB(r.db)
           /\ response' = [op |-> "updateSale", status |-> r.status]
           /\ UNCHANGED <<reqs, syncQueue, clientVars>>

UpdateDebt(d, user, id, body) ==
    LET updateData == Strip(body, MetadataKeys)
    IN IF id \notin DOMAIN d.debts
       THEN [db |-> d, status |-> 404]
       ELSE IF user.role # "ADMIN" /\ user.storeId # d.debts[id].storeId
       THEN [db |-> d, status |-> 403]
       ELSE [db |-> [d EXCEPT !.debts[id] = Merge(@, updateData)],
             status |-> 200]

DebtBodies == {[clientName |-> "Ann"], [paidAmount |-> 1]}

UpdateDebtAct ==
    \E user \in Callers, id \in 1..MaxSales, body \in DebtBodies :
        LET r == UpdateDebt(DB, user, id, body)
        IN /\ SetDB(r.db)
           /\ response' = [op |-> "updateDebt", status |-> r.status]
           /\ UNCHANGED <<reqs, syncQueue, clientVars>>

(***************************************************************************)
(* POST /sales as concurrent requests.  A request suspends at each await:  *)
(* after it asked for the product row, and when it opens its transaction.  *)
(* The transaction itself runs against the rows as they are when it runs.  *)
(***************************************************************************)
Slots == 1..NumRequests

IdleReq == [pc |-> "idle", status |-> 0]

\* Store check, then prisma.product.findUnique.
SaleRead(r) ==
    /\ reqs[r].pc = "idle"
    /\ \E user \in Callers, data \in SaleRequests :
          reqs' = [reqs EXCEPT ![r] =
                     IF StoreAccessDenied(user, data.storeId)
                     THEN [pc |-> "done", status |-> 403]
                     ELSE IF data.productId \notin DOMAIN products
                     THEN [pc |-> "done", status |-> 404]
                     ELSE [pc |-> "read", status |-> 0, data |-> data,
                           product |-> products[data.productId]]]
    /\ UNCHANGED <<dbVars, response, syncQueue, clientVars>>

\* The stock availability check on the row that was read.
SaleCheck(r) ==
    /\ reqs[r].pc = "read"
    /\ reqs' = [reqs EXCEPT ![r] =
                  IF reqs[r].product.currentStock <
                        RequiredStock(reqs[r].data, reqs[r].product)
                  THEN [pc |-> "done", status |-> 400]
                  ELSE [@ EXCEPT !.pc = "checked"]]
    /\ UNCHANGED <<dbVars, response, syncQueue, clientVars>>

\* prisma.$transaction.
SaleCommit(r) ==
    /\ reqs[r].pc = "checked"
    /\ \E failAt \in 0..(IF reqs[r].data.isDebt THEN 4 ELSE 3) :
          /\ SetDBUncapped(SaleTx(DB, reqs[r].data, reqs[r].product, failAt))
          /\ reqs' = [reqs EXCEPT ![r] =
                        [pc |-> "done",
                         status |-> IF failAt # 0 THEN 500 ELSE 201]]
    /\ UNCHANGED <<response, syncQueue, clientVars>>

(***************************************************************************)
(* POST /debts/:id/payments as concurrent requests.  A request suspends at *)
(* its two awaits: the read of the debt, after which it validates the      *)
(* amount on the row it read, and the transaction, which computes the new  *)
(* amounts from that same row.                                             *)
(***************************************************************************)
\* prisma.debt.findUnique, then the store check and the amount validation.
PayRead(r) ==
    /\ reqs[r].pc = "idle"
    /\ \E user \in Callers, id \in 1..MaxSales, amount \in 1..MaxPay :
          reqs' = [reqs EXCEPT ![r] =
                     IF id \notin DOMAIN debts
                     THEN [pc |-> "done", status |-> 404]
                     ELSE IF user.role # "ADMIN" /\ user.storeId # debts[id].storeId
                     THEN [pc |-> "done", status |-> 403]
                     ELSE IF amount > debts[id].remainingAmount
                     THEN [pc |-> "done", status |-> 400]
                     ELSE [pc |-> "validated", status |-> 0, id |-> id,
                           data |-> [amount |-> amount], debt |-> debts[id]]]
    /\ UNCHANGED <<dbVars, response, syncQueue, clientVars>>

\* prisma.$transaction.
PayCommit(r) ==
    /\ reqs[r].pc = "validated"
    /\ \E failAt \in 0..2 :
          /\ SetDBUncapped(TxOutcome(DB,
                                     PaymentTxAfter(DB, reqs[r].id, reqs[r].data,
                                                    reqs[r].debt, failAt - 1),
                                     PaymentTxAfter(DB, reqs[r].id, reqs[r].data,
                                                    reqs[r].debt, 2),
                                     failAt # 0))
          /\ reqs' = [reqs EXCEPT ![r] =
                        [pc |-> "done",
                         status |-> IF failAt # 0 THEN 500 ELSE 201]]
    /\ UNCHANGED <<response, syncQueue, clientVars>>

(***************************************************************************)
(* POST /sync/retry as concurrent requests, next to the socket message     *)
(* 'sync:complete'.  A retry suspends after its findMany and after each    *)
(* update of the loop; the rows are updated in no particular order.        *)
(***************************************************************************)
\* prisma.syncQueue.findMany
RetryRead(r) ==
    /\ reqs[r].pc = "idle"
    /\ \E user \in Callers :
          reqs' = [reqs EXCEPT ![r] =
                     [pc |-> "updating", status |-> 0,
                      todo |-> FailedItems(syncQueue, user)]]
    /\ UNCHANGED <<dbVars, response, syncQueue, clientVars>>

\* One prisma.syncQueue.update of the loop, or the reply after the last.
RetryUpdate(r) ==
    /\ reqs[r].pc = "updating"
    /\ IF reqs[r].todo = {}
       THEN /\ reqs' = [reqs EXCEPT ![r] = [pc |-> "done", status |-> 200]]
            /\ UNCHANGED syncQueue
       ELSE \E k \in reqs[r].todo :
               /\ syncQueue' = [syncQueue EXCEPT ![k].status = "PENDING",
                                                 ![k].attempts = @ + 1,
                                                 ![k].error = NoError]
               /\ reqs' = [reqs EXCEPT ![r].todo = @ \ {k}]
    /\ UNCHANGED <<dbVars, response, clientVars>>

\* socket.on('sync:complete'): updateMany({where: {id: {in: syncIds},
\* userId}, data: {status: 'COMPLETED'}})
SyncComplete ==
    /\ \E user \in Callers, syncIds \in SUBSET (DOMAIN syncQueue) :
          /\ syncIds # {}
          /\ syncQueue' = [k \in DOMAIN syncQueue |->
                             IF k \in syncIds /\ syncQueue[k].userId = user.id
                             THEN [syncQueue[k] EXCEPT !.status = "COMPLETED"]
                             ELSE syncQueue[k]]
    /\ response' = [op |-> "syncComplete", status |-> 200]
    /\ UNCHANGED <<dbVars, reqs, clientVars>>

(***************************************************************************)
(* The client's offline queue (useSyncStore).  `syncStore` is the zustand  *)
(* state, `call` the syncToServer invocation suspended at its await, and   *)
(* `pushes` records, per item id created, how often the item was sent and  *)
(* how often a send failed.  Code between two awaits runs in one step.     *)
(* Ids are Date.now() plus a random suffix, modelled as fresh integers;    *)
(* timestamps and the items' payload are left out.                         *)
(***************************************************************************)
NoCall == [pc |-> "idle", itemsToSync |-> <<>>]

InitialStore ==
    [isOnline |-> TRUE, isSyncing |-> FALSE,
     pendingItems |-> <<>>, failedItems |-> <<>>]

InitClient ==
    /\ syncStore = InitialStore
    /\ call = NoCall
    /\ pushes = <<>>

IdsOf(items) == {items[i].id : i \in 1..Len(items)}

Map(items, F(_)) == [i \in 1..Len(items) |-> F(items[i])]

\* The per-id history after sending `items`.
Sent(h, items) ==
    [id \in DOMAIN h |->
        IF id \in IdsOf(items) THEN [h[id] EXCEPT !.sent = @ + 1] ELSE h[id]]

\* The per-id history after the sends of the ids in `ids` failed.
Failed(h, ids) ==
    [id \in DOMAIN h |->
        IF id \in ids THEN [h[id] EXCEPT !.failed = @ + 1] ELSE h[id]]

\* syncToServer up to `await apiService.pushSync`.
SyncToServer(st, cl, h) ==
    IF ~st.isOnline \/ st.isSyncing \/ Len(st.pendingItems) = 0
    THEN [store |-> st, call |-> cl, pushes |-> h]
    ELSE LET itemsToSync ==
                 SelectSeq(st.pendingItems,
                           LAMBDA item : item.status = "PENDING")
             Processing(item) ==
                 IF item.id \in IdsOf(itemsToSync)
                 THEN [item EXCEPT !.status = "PROCESSING"]
                 ELSE item
         IN IF Len(itemsToSync) = 0
            THEN [store |-> [st EXCEPT !.isSyncing = FALSE],
                  call |-> cl, pushes |-> h]
            ELSE [store |-> [st EXCEPT
                               !.isSyncing = TRUE,
                               !.pendingItems = Map(@, Processing)],
                  call |-> [pc |-> "pushing", itemsToSync |-> itemsToSync],
                  pushes |-> Sent(h, itemsToSync)]

\* retryFailedItems up to the await inside the syncToServer it calls.
RetryableItems(st) ==
    SelectSeq(st.failedItems, LAMBDA item : item.attempts < ClientRetryLimit)

RetryFailedItems(st, cl, h) ==
    LET retryableItems == RetryableItems(st)
        Pending(item) == [item EXCEPT !.status = "PENDING"]
    IN IF Len(retryableItems) = 0
       THEN [store |-> st, call |-> cl, pushes |-> h]
       ELSE SyncToServer(
              [st EXCEPT
                 !.pendingItems = @ \o Map(retryableItems, Pending),
                 !.failedItems =
                     SelectSeq(@, LAMBDA item :
                                    item.attempts >= ClientRetryLimit)],
              cl, h)

\* The result processing after pushSync resolved with `results`.
PushResolved(st, itemsToSync, results) ==
    LET successfulIds ==
            {itemsToSync[i].id : i \in {j \in 1..Len(itemsToSync) :
                                          results[j] = "success"}}
        errors == SelectSeq([i \in 1..Len(itemsToSync) |->
                               [item |-> itemsToSync[i],
                                status |-> results[i]]],
                            LAMBDA r : r.status # "success")
        failedItems ==
            [i \in 1..Len(errors) |->
                [errors[i].item EXCEPT !.status = "FAILED",
                                       !.attempts = @ + 1,
                                       !.error = "rejected"]]
    IN [st EXCEPT
          !.pendingItems =
              SelectSeq(@, LAMBDA item : item.id \notin successfulIds),
          !.failedItems = @ \o failedItems,
          !.isSyncing = FALSE]

\* The catch block after pushSync threw.
PushRejected(st) ==
    LET Fail(item) ==
            IF item.status = "PROCESSING"
            THEN [item EXCEPT !.status = "FAILED",
                              !.attempts = @ + 1,
                              !.error = "threw"]
            ELSE item
    IN [st EXCEPT !.pendingItems = Map(@, Fail), !.isSyncing = FALSE]

ClientFrame == UNCHANGED <<dbVars, response, reqs, syncQueue>>

SetOnlineStatus ==
    /\ \E isOnline \in BOOLEAN :
          syncStore' = [syncStore EXCEPT !.isOnline = isOnline]
    /\ UNCHANGED <<call, pushes>>
    /\ ClientFrame

AddSyncItem ==
    /\ Len(pushes) < MaxItems
    /\ syncStore' = [syncStore EXCEPT
                   !.pendingItems =
                       Append(@, [id |-> Len(pushes) + 1, attempts |-> 0,
                                  status |-> "PENDING", error |-> NoError])]
    /\ pushes' = Append(pushes, [sent |-> 0, failed |-> 0])
    /\ UNCHANGED call
    /\ ClientFrame

SyncToServerAct ==
    /\ LET r == SyncToServer(syncStore, call, pushes)
       IN /\ syncStore' = r.store
          /\ call' = r.call
          /\ pushes' = r.pushes
    /\ ClientFrame

Outcomes == {"success", "error"}

PushReturns(outcomes) ==
    /\ call.pc = "pushing"
    /\ \E results \in [1..Len(call.itemsToSync) -> outcomes] :
          /\ syncStore' = PushResolved(syncStore, call.itemsToSync, results)
          /\ pushes' = Failed(pushes,
                              {call.itemsToSync[i].id :
                                 i \in {j \in 1..Len(call.itemsToSync) :
                                          results[j] # "success"}})
    /\ call' = NoCall
    /\ ClientFrame

PushThrows ==
    /\ call.pc = "pushing"
    /\ syncStore' = PushRejected(syncStore)
    /\ pushes' = Failed(pushes, IdsOf(call.itemsToSync))
    /\ call' = NoCall
    /\ ClientFrame

RetryFailedItemsAct ==
    /\ LET r == RetryFailedItems(syncStore, call, pushes)
       IN /\ syncStore' = r.store
          /\ call' = r.call
          /\ pushes' = r.pushes
    /\ ClientFrame

ClearSyncQueue ==
    /\ syncStore' = [syncStore EXCEPT !.pendingItems = <<>>,
                                      !.failedItems = <<>>]
    /\ UNCHANGED <<call, pushes>>
    /\ ClientFrame

(***************************************************************************)
(* Initial state and specification.                                        *)
(***************************************************************************)
ProductRow(store, stock, upp) ==
    [storeId |-> store, unitsPerPackage |-> upp, currentStock |-> stock,
     unitSalePrice |-> 2, packageSalePrice |-> 3, isActive |-> TRUE]

InitProducts(a, b) ==
    [p \in ProductIds |-> IF p = 1 THEN ProductRow("s1", a, 2)
                          ELSE ProductRow("s1", b, 1)]

EmptyTables ==
    /\ sales = <<>>
    /\ movements = <<>>
    /\ debts = <<>>
    /\ payments = <<>>
    /\ response = [op |-> "none", status |-> 0]
    /\ InitClient
    /\ syncQueue = <<>>

Init ==
    /\ \E a \in 0..MaxStock, b \in 0..MaxStock : products = InitProducts(a, b)
    /\ EmptyTables
    /\ reqs = <<>>

\* Both products fully stocked.
InitStocked ==
    /\ products = InitProducts(MaxStock, MaxStock)
    /\ EmptyTables
    /\ reqs = <<>>

\* The stock ledger: sales, manual movements and bulk adjustments.
Next ==
    \/ CreateSaleAct
    \/ CreateStockMovementAct
    \/ BulkAdjustmentAct

Spec == Init /\ [][Next]_vars

\* The debt ledger: credit sales and their payments.
NextDebt ==
    \/ CreateSaleAct
    \/ AddPaymentAct

SpecDebt == Init /\ [][NextDebt]_vars

\* The sale processor on its own.
NextSale ==
    \/ CreateSaleAct

SpecSale == Init /\ [][NextSale]_vars

\* The pull endpoint next to the sale processor.
NextPull ==
    \/ CreateSaleAct
    \/ PullAct

SpecPull == Init /\ [][NextPull]_vars

\* The retry endpoint over a queue of any rows.
InitQueue ==
    /\ products = InitProducts(MaxStock, MaxStock)
    /\ sales = <<>>
    /\ movements = <<>>
    /\ debts = <<>>
    /\ payments = <<>>
    /\ response = [op |-> "none", status |-> 0]
    /\ InitClient
    /\ reqs = <<>>
    /\ syncQueue \in [1..MaxQueue -> QueueRows]

NextRetry ==
    \/ RetryAct

SpecRetry == InitQueue /\ [][NextRetry]_vars

\* The sync reconciler on its own.
NextPush ==
    \/ SyncPushAct

SpecPush == InitStocked /\ [][NextPush]_vars

\* The update paths of products and sales next to the sale processor.
NextMeta ==
    \/ CreateSaleAct
    \/ UpdateProductAct
    \/ UpdateSaleAct
    \/ SyncUpdateAct

SpecMeta == InitStocked /\ [][NextMeta]_vars

\* Concurrent payment requests on the debt of a credit sale.
InitPayConc ==
    /\ \E a \in 0..MaxStock, b \in 0..MaxStock, data \in SaleRequests :
          LET d0 == [products |-> InitProducts(a, b), sales |-> <<>>,
                     movements |-> <<>>, debts |-> <<>>, payments |-> <<>>]
              r == CreateSale(d0, Admin, data, 0)
          IN /\ data.isDebt
             /\ r.status = 201
             /\ SetDBNow(r.db)
    /\ response = [op |-> "createSale", status |-> 201]
    /\ InitClient
    /\ reqs = [r \in Slots |-> IdleReq]
    /\ syncQueue = <<>>

NextPayConc ==
    \E r \in Slots :
        \/ PayRead(r)
        \/ PayCommit(r)

SpecPayConc == InitPayConc /\ [][NextPayConc]_vars

\* Concurrent retries over a queue of rows with the default maxAttempts,
\* none of them beyond it.
InitQueueConc ==
    /\ products = InitProducts(MaxStock, MaxStock)
    /\ sales = <<>>
    /\ movements = <<>>
    /\ debts = <<>>
    /\ payments = <<>>
    /\ response = [op |-> "none", status |-> 0]
    /\ InitClient
    /\ reqs = [r \in Slots |-> IdleReq]
    /\ syncQueue \in [1..MaxQueue ->
                         {row \in QueueRows :
                             /\ row.maxAttempts = DefaultMaxAttempts
                             /\ row.attempts <= row.maxAttempts}]

NextRetryConc ==
    \/ \E r \in Slots :
          \/ RetryRead(r)
          \/ RetryUpdate(r)
    \/ SyncComplete

SpecRetryConc == InitQueueConc /\ [][NextRetryConc]_vars

\* The client's queue without clearSyncQueue.
InitClientOnly ==
    /\ products = InitProducts(MaxStock, MaxStock)
    /\ EmptyTables
    /\ reqs = <<>>

NextClient ==
    \/ AddSyncItem
    \/ SetOnlineStatus
    \/ SyncToServerAct
    \/ PushReturns(Outcomes)
    \/ PushThrows
    \/ RetryFailedItemsAct

SpecClient == InitClientOnly /\ [][NextClient]_vars

\* The client's queue with clearSyncQueue.
NextClientClear ==
    \/ AddSyncItem
    \/ SyncToServerAct
    \/ PushReturns(Outcomes)
    \/ RetryFailedItemsAct
    \/ ClearSyncQueue

SpecClientClear == InitClientOnly /\ [][NextClientClear]_vars

\* The client's queue against a server that never accepts an item.
NextClientReject ==
    \/ AddSyncItem
    \/ SyncToServerAct
    \/ PushReturns({"error"})
    \/ PushThrows
    \/ RetryFailedItemsAct

SpecClientReject == InitClientOnly /\ [][NextClientReject]_vars

\* Product creation on its own.
NextProduct ==
    \/ CreateProductAct

SpecProduct == Init /\ [][NextProduct]_vars

\* Manual stock movements on their own.
NextMove ==
    \/ CreateStockMovementAct

SpecMove == Init /\ [][NextMove]_vars

\* Bulk adjustments on their own.
NextBulk ==
    \/ BulkAdjustmentAct

SpecBulk == Init /\ [][NextBulk]_vars

\* The payments on a debt, starting right after the credit sale that
\* created it.
InitPay ==
    /\ \E a \in 0..MaxStock, b \in 0..MaxStock, data \in SaleRequests :
          LET d0 == [products |-> InitProducts(a, b), sales |-> <<>>,
                     movements |-> <<>>, debts |-> <<>>, payments |-> <<>>]
              r == CreateSale(d0, Admin, data, 0)
          IN /\ data.isDebt
             /\ r.status = 201
             /\ SetDBNow(r.db)
    /\ response = [op |-> "createSale", status |-> 201]
    /\ InitClient
    /\ reqs = <<>>
    /\ syncQueue = <<>>

NextPay ==
    \/ AddPaymentAct

SpecPay == InitPay /\ [][NextPay]_vars

\* The update paths of a debt next to its payments.
NextDebtMeta ==
    \/ AddPaymentAct
    \/ UpdateDebtAct
    \/ SyncUpdateAct

SpecDebtMeta == InitPay /\ [][NextDebtMeta]_vars

\* The sync reconciler next to the sale processor.
NextSync ==
    \/ CreateSaleAct
    \/ SyncPushAct

SpecSync == InitStocked /\ [][NextSync]_vars

\* Concurrent sale requests.
InitConc ==
    /\ \E a \in 0..MaxStock, b \in 0..MaxStock : products = InitProducts(a, b)
    /\ EmptyTables
    /\ reqs = [r \in Slots |-> IdleReq]

NextConc ==
    \E r \in Slots :
        \/ SaleRead(r)
        \/ SaleCheck(r)
        \/ SaleCommit(r)

SpecConc == InitConc /\ [][NextConc]_vars

(***************************************************************************)
(* Properties of the stock ledger and the debt ledger.                     *)
(***************************************************************************)
NonAdmins == {u \in Callers : u.role # "ADMIN"}

\* C1: every product's currentStock is >= 0 in every state reached by any
\* sequence of sales, stock movements and bulk adjustments, each run to
\* completion.
C1_StockNonNegative ==
    \A p \in DOMAIN products : products[p].currentStock >= 0

\* A movement that would have driven the stock below zero was applied: a
\* TRANSFER or ADJUSTMENT of positive magnitude left its product at zero.
C1_Witness ==
    /\ response.op = "createStockMovement"
    /\ response.status = 201
    /\ \E m \in DOMAIN movements :
          /\ movements[m].type \in {"TRANSFER", "ADJUSTMENT"}
          /\ movements[m].quantity > 0
          /\ products[movements[m].productId].currentStock = 0

\* C3: remainingAmount = amount - paidAmount for every debt, after every
\* payment, starting from the debt as the sale created it.
C3_DebtBalance ==
    \A i \in DOMAIN debts :
        debts[i].remainingAmount = debts[i].amount - debts[i].paidAmount

\* Two payments were applied to one debt.
C3_Witness ==
    /\ response.op = "addPayment"
    /\ response.status = 201
    /\ \E i \in DOMAIN debts :
          /\ debts[i].paidAmount > 0
          /\ Cardinality({k \in DOMAIN payments : payments[k].debtId = i}) = 2

\* The rows a sale must come with: one OUT movement referring to it and,
\* for a credit sale, one debt of the sale's total.
SaleComplete(d, id) ==
    /\ Cardinality({m \in DOMAIN d.movements :
                       /\ d.movements[m].reference = id
                       /\ d.movements[m].type = "OUT"
                       /\ d.movements[m].reason = "Sale"}) = 1
    /\ LET ds == {i \in DOMAIN d.debts : d.debts[i].saleId = id}
       IN IF d.sales[id].isDebt
          THEN /\ Cardinality(ds) = 1
               /\ \A i \in ds : d.debts[i].amount = d.sales[id].totalAmount
          ELSE ds = {}

\* C5: createSale is atomic.  Whatever statement of its transaction throws,
\* the request either commits the sale with its movement and (for a credit
\* sale) its debt of amount = remainingAmount = totalAmount, or changes
\* nothing; and no state holds a sale without these rows.
C5_SaleAtomic ==
    /\ \A id \in DOMAIN sales : SaleComplete(DB, id)
    /\ \A user \in Callers, data \in SaleRequests, failAt \in 0..4 :
          LET r == CreateSale(DB, user, data, failAt)
              new == (DOMAIN r.db.sales) \ (DOMAIN sales)
          IN IF r.status = 201
             THEN /\ Cardinality(new) = 1
                  /\ \A id \in new :
                        /\ SaleComplete(r.db, id)
                        /\ \A i \in DOMAIN r.db.debts :
                              r.db.debts[i].saleId = id =>
                                 /\ r.db.debts[i].amount =
                                       r.db.sales[id].totalAmount
                                 /\ r.db.debts[i].remainingAmount =
                                       r.db.sales[id].totalAmount
             ELSE r.db = DB

\* A credit sale was committed, and a statement of a later sale's
\* transaction can still throw from this state.
C5_Witness ==
    /\ response.op = "createSale"
    /\ response.status = 201
    /\ \E id \in DOMAIN sales : sales[id].isDebt
    /\ \E user \in Callers, data \in SaleRequests :
          CreateSale(DB, user, data, 3).status = 500

\* C9: a successful sale of quantity q of product P decrements P's stock
\* by q * unitsPerPackage (PACKAGE) or q (UNIT), stores the package or the
\* unit sale price as unitPrice and unitPrice * q as totalAmount, and writes
\* one OUT movement of that many units with reason 'Sale'.
C9_SaleEffects ==
    \A user \in Callers, data \in SaleRequests :
        LET r == CreateSale(DB, user, data, 0)
        IN r.status = 201 =>
           LET P == products[data.productId]
               units == IF data.saleType = "PACKAGE"
                        THEN data.quantity * P.unitsPerPackage
                        ELSE data.quantity
               price == IF data.saleType = "PACKAGE"
                        THEN P.packageSalePrice
                        ELSE P.unitSalePrice
               newSales == (DOMAIN r.db.sales) \ (DOMAIN sales)
               newMoves == (DOMAIN r.db.movements) \ (DOMAIN movements)
           IN /\ r.db.products[data.productId].currentStock =
                    P.currentStock - units
              /\ \A p \in DOMAIN products :
                    p # data.productId => r.db.products[p] = products[p]
              /\ Cardinality(newSales) = 1
              /\ \A id \in newSales :
                    /\ r.db.sales[id].unitPrice = price
                    /\ r.db.sales[id].totalAmount = price * data.quantity
                    /\ r.db.sales[id].quantity = data.quantity
                    /\ r.db.sales[id].productId = data.productId
                    /\ Cardinality(newMoves) = 1
                    /\ \A m \in newMoves :
                          /\ r.db.movements[m].type = "OUT"
                          /\ r.db.movements[m].quantity = units
                          /\ r.db.movements[m].reason = "Sale"
                          /\ r.db.movements[m].reference = id
                          /\ r.db.movements[m].productId = data.productId

\* A package sale was committed: the units taken from the stock differ from
\* the quantity sold.
C9_Witness ==
    /\ response.op = "createSale"
    /\ response.status = 201
    /\ \E id \in DOMAIN sales :
          /\ sales[id].saleType = "PACKAGE"
          /\ \E m \in DOMAIN movements :
                /\ movements[m].reference = id
                /\ movements[m].quantity > sales[id].quantity

\* C10: a sale that needs more units than the product holds is rejected with
\* the insufficient-stock reply (400) and changes nothing.
C10_InsufficientStock ==
    \A user \in Callers, data \in SaleRequests, failAt \in 0..4 :
        LET r == CreateSale(DB, user, data, failAt)
        IN (/\ user.role = "ADMIN" \/ user.storeId = data.storeId
            /\ data.productId \in DOMAIN products
            /\ products[data.productId].currentStock <
                  (IF data.saleType = "PACKAGE"
                   THEN data.quantity *
                           products[data.productId].unitsPerPackage
                   ELSE data.quantity))
           => r.status = 400 /\ r.db = DB

\* A sale was rejected for insufficient stock although the product holds at
\* least the quantity asked for (a package sale).
C10_Witness ==
    /\ response.op = "createSale"
    /\ response.status = 400
    /\ \E p \in DOMAIN products : products[p].currentStock > 0

(***************************************************************************)
(* Properties of concurrent sales, of the sync reconciler and of store     *)
(* scoping.                                                                *)
(***************************************************************************)
RECURSIVE SumQuantities(_, _)
SumQuantities(t, ids) ==
    IF ids = {} THEN 0
    ELSE LET i == CHOOSE x \in ids : TRUE
         IN t[i].quantity + SumQuantities(t, ids \ {i})

\* Units of product p taken out by committed sales.
SoldUnits(p) ==
    SumQuantities(movements,
                  {m \in DOMAIN movements : /\ movements[m].productId = p
                                            /\ movements[m].reason = "Sale"})

\* C2: concurrent sales of one product serialize: however the steps of two
\* createSale requests interleave, no stock goes negative and the units
\* sold do not exceed the stock there was before the requests (which is the
\* current stock plus the units sold, sales being the only writers here).
C2_SalesSerialize ==
    \A p \in DOMAIN products :
        /\ products[p].currentStock >= 0
        /\ SoldUnits(p) <= products[p].currentStock + SoldUnits(p)

\* C4: every sale row has exactly one stock movement whose reference is the
\* sale's id, whether createSale or a pushed CREATE on 'sales' made it.
C4_SaleHasOneMovement ==
    \A id \in DOMAIN sales :
        Cardinality({m \in DOMAIN movements :
                        movements[m].reference = id}) = 1

\* C6: no two debts share a sale, and a pushed CREATE on 'debts' for a sale
\* that already has a debt is answered with an error and changes nothing.
C6_OneDebtPerSale ==
    /\ \A i, j \in DOMAIN debts :
          i # j => debts[i].saleId # debts[j].saleId
    /\ \A user \in Callers, item \in SyncItems :
          (/\ item.tableName = "debts"
           /\ item.action = "CREATE"
           /\ \E i \in DOMAIN debts : debts[i].saleId = item.data.saleId)
          => LET r == PushItem(DB, user, item)
             IN r.result.status = "error" /\ r.db = DB

\* A push was answered with an error for one of its items while a debt
\* exists whose sale a CREATE item on 'debts' names again under a new id.
C6_Witness ==
    /\ response.op = "push"
    /\ \E k \in DOMAIN response.status : response.status[k] = "error"
    /\ \E i \in DOMAIN debts, item \in SyncItems :
          /\ item.tableName = "debts"
          /\ item.action = "CREATE"
          /\ item.recordId \notin DOMAIN debts
          /\ debts[i].saleId = item.data.saleId

\* An item the push must refuse whatever the database holds: a store other
\* than the caller's, a table or an action the reconciler does not support.
ItemRefused(user, item) ==
    \/ /\ "storeId" \in DOMAIN item.data
       /\ item.data.storeId # user.storeId
       /\ user.role # "ADMIN"
    \/ item.tableName \notin {"products", "sales", "stock_movements", "debts"}
    \/ item.tableName = "sales" /\ item.action = "DELETE"
    \/ item.tableName = "stock_movements" /\ item.action # "CREATE"
    \/ item.tableName = "debts" /\ item.action = "DELETE"

\* C7: a push of N items answers with N results in the order of the items,
\* result i naming item i's recordId; a refused item is reported as an
\* error; and an item that fails leaves the rest of the batch as it would
\* be without it: the other item has the same result and the same effect.
C7_PushIsolation ==
    \A user \in Callers, items \in Batches :
        LET out == Push(DB, user, items)
        IN /\ Len(out.results) = Len(items)
           /\ \A i \in DOMAIN items :
                 /\ out.results[i].recordId = items[i].recordId
                 /\ ItemRefused(user, items[i])
                       => out.results[i].status = "error"
           /\ Len(items) = 2 =>
                 LET first == Push(DB, user, <<items[1]>>)
                     second == Push(DB, user, <<items[2]>>)
                 IN /\ out.results[1] = first.results[1]
                    /\ out.results[1].status = "error" =>
                          /\ out.results[2] = second.results[1]
                          /\ out.db = second.db
                    /\ out.results[2].status = "error" => out.db = first.db

\* A push whose first item failed and whose second item was applied.
C7_Witness ==
    /\ response.op = "push"
    /\ response.status = <<"error", "success">>
    /\ DOMAIN movements # {}

\* Rows of d that belong to another store than user's are as in the current
\* database.
Confined(user, d) ==
    /\ \A p \in DOMAIN products :
          products[p].storeId # user.storeId =>
             p \in DOMAIN d.products /\ d.products[p] = products[p]
    /\ \A i \in DOMAIN sales :
          sales[i].storeId # user.storeId =>
             i \in DOMAIN d.sales /\ d.sales[i] = sales[i]
    /\ \A i \in DOMAIN movements :
          movements[i].storeId # user.storeId =>
             i \in DOMAIN d.movements /\ d.movements[i] = movements[i]
    /\ \A i \in DOMAIN debts :
          debts[i].storeId # user.storeId =>
             i \in DOMAIN d.debts /\ d.debts[i] = debts[i]

\* C8: no mutating operation of a non-admin changes a product, sale, debt
\* or movement row of another store than the caller's.
C8_StoreConfinement ==
    \A user \in NonAdmins :
        /\ \A data \in SaleRequests :
              Confined(user, CreateSale(DB, user, data, 0).db)
        /\ \A data \in MovementRequests :
              Confined(user, CreateStockMovement(DB, user, data, 0).db)
        /\ \A data \in BulkRequests :
              Confined(user, BulkAdjustment(DB, user, data, FALSE).db)
        /\ \A id \in DOMAIN debts, amount \in 1..MaxPay :
              Confined(user, AddPayment(DB, user, id, [amount |-> amount], 0).db)
        /\ \A item \in SyncItems :
              Confined(user, PushItem(DB, user, item).db)

(***************************************************************************)
(* Properties of debt payments.                                            *)
(***************************************************************************)
PayAmounts == 1..MaxPay

\* C11: a successful addPayment of amount a inserts exactly one DebtPayment
\* of amount a for the debt and sets paidAmount to the previous paidAmount
\* + a, remainingAmount to amount - paidAmount and status to PAID exactly
\* when the new remainingAmount is 0, to PARTIAL otherwise; payment and
\* debt update commit together: when a statement of the transaction throws,
\* nothing is written.
C11_PaymentEffects ==
    \A user \in Callers, id \in DOMAIN debts, a \in PayAmounts :
        LET r == AddPayment(DB, user, id, [amount |-> a], 0)
            new == (DOMAIN r.db.payments) \ (DOMAIN payments)
        IN r.status = 201 =>
           /\ Cardinality(new) = 1
           /\ \A k \in new : r.db.payments[k] = [debtId |-> id, amount |-> a]
           /\ \A k \in DOMAIN payments : r.db.payments[k] = payments[k]
           /\ r.db.debts[id].paidAmount = debts[id].paidAmount + a
           /\ r.db.debts[id].remainingAmount =
                 debts[id].amount - (debts[id].paidAmount + a)
           /\ r.db.debts[id].status =
                 (IF debts[id].amount - (debts[id].paidAmount + a) = 0
                  THEN "PAID" ELSE "PARTIAL")
           /\ r.db.debts[id].amount = debts[id].amount
           /\ \A failAt \in 1..2 :
                 AddPayment(DB, user, id, [amount |-> a], failAt).db = DB

\* A debt was paid off by a second payment after a partial one.
C11_Witness ==
    /\ response.op = "addPayment"
    /\ response.status = 201
    /\ \E i \in DOMAIN debts :
          /\ debts[i].status = "PAID"
          /\ Cardinality({k \in DOMAIN payments : payments[k].debtId = i}) = 2

\* The caller may act on the debt's store.
DebtAccess(user, id) ==
    user.role = "ADMIN" \/ user.storeId = debts[id].storeId

\* C12: a payment larger than the debt's remainingAmount is rejected (400
\* for a caller of the debt's store) and leaves debts and payments as they
\* are; a debt is PAID only with remainingAmount 0, and then every payment
\* of positive amount is rejected, so that it stays PAID.
C12_OverpaymentRejected ==
    \A id \in DOMAIN debts :
        /\ debts[id].status = "PAID" => debts[id].remainingAmount = 0
        /\ \A user \in Callers, a \in PayAmounts, failAt \in 0..2 :
              LET r == AddPayment(DB, user, id, [amount |-> a], failAt)
              IN (a > debts[id].remainingAmount \/ debts[id].status = "PAID")
                 => /\ r.status \in {400, 403}
                    /\ DebtAccess(user, id) => r.status = 400
                    /\ r.db = DB

\* A payment on a paid debt was rejected.
C12_Witness ==
    /\ response.op = "addPayment"
    /\ response.status = 400
    /\ \E i \in DOMAIN debts :
          /\ debts[i].status = "PAID"
          /\ debts[i].remainingAmount = 0
          /\ payments # <<>>

(***************************************************************************)
(* Properties of the bulk adjustment.                                      *)
(***************************************************************************)
\* The products a request lists.
Listed(data) ==
    {data.adjustments[i].productId : i \in DOMAIN data.adjustments}

\* C13: a successful bulk adjustment leaves each listed product at its
\* target newStock, writes exactly one ADJUSTMENT movement of magnitude
\* |newStock - currentStock| for each product whose target differs from its
\* stock, and writes no movement for a product already at its target; it
\* touches no other product and no other movement.
C13_BulkEffects ==
    \A user \in Callers, data \in BulkRequests :
        LET r == BulkAdjustment(DB, user, data, FALSE)
            new == (DOMAIN r.db.movements) \ (DOMAIN movements)
        IN r.status = 201 =>
           /\ \A i \in DOMAIN data.adjustments :
                 LET adj == data.adjustments[i]
                     before == products[adj.productId].currentStock
                     mine == {m \in new :
                                 r.db.movements[m].productId = adj.productId}
                 IN /\ r.db.products[adj.productId].currentStock = adj.newStock
                    /\ Cardinality(mine) =
                          (IF adj.newStock # before THEN 1 ELSE 0)
                    /\ \A m \in mine :
                          /\ r.db.movements[m].type = "ADJUSTMENT"
                          /\ r.db.movements[m].quantity =
                                Abs(adj.newStock - before)
                          /\ r.db.movements[m].storeId = data.storeId
           /\ \A m \in new : r.db.movements[m].productId \in Listed(data)
           /\ \A m \in DOMAIN movements : r.db.movements[m] = movements[m]
           /\ \A p \in DOMAIN products :
                 p \notin Listed(data) => r.db.products[p] = products[p]

\* A bulk adjustment was applied that moved a product, and a request that
\* lists one product to move and one already at its target is acceptable.
C13_Witness ==
    /\ response.op = "bulkAdjustment"
    /\ response.status = 201
    /\ \E m \in DOMAIN movements :
          /\ movements[m].type = "ADJUSTMENT"
          /\ movements[m].reason = "Bulk adjustment"
          /\ movements[m].quantity = MaxStock
    /\ \E data \in BulkRequests :
          /\ Len(data.adjustments) = 2
          /\ BulkAdjustment(DB, Admin, data, FALSE).status = 201
          /\ Cardinality((DOMAIN BulkAdjustment(DB, Admin, data, FALSE).db.movements)
                            \ (DOMAIN movements)) = 1

\* The request names a product that does not exist or is not of its store.
BadBatch(data) ==
    \E i \in DOMAIN data.adjustments :
        \/ data.adjustments[i].productId \notin DOMAIN products
        \/ products[data.adjustments[i].productId].storeId # data.storeId

\* C14: a bulk adjustment that names a product which does not exist or is
\* not of the given store is rejected as a whole (400 for a caller allowed
\* on the store) before any write: no stock changes and no movement is
\* created, also for the valid products of the batch.
C14_BulkAllOrNothing ==
    \A user \in Callers, data \in BulkRequests, failed \in BOOLEAN :
        LET r == BulkAdjustment(DB, user, data, failed)
        IN BadBatch(data) =>
              /\ r.status \in {400, 403}
              /\ ~StoreAccessDenied(user, data.storeId) => r.status = 400
              /\ r.db = DB

\* A bulk adjustment was rejected although a request of the same shape can
\* hold a valid product whose target differs from its stock.
C14_Witness ==
    /\ response.op = "bulkAdjustment"
    /\ response.status = 400
    /\ \E data \in BulkRequests :
          /\ Len(data.adjustments) = 2
          /\ BadBatch(data)
          /\ \E i \in DOMAIN data.adjustments :
                /\ data.adjustments[i].productId \in DOMAIN products
                /\ products[data.adjustments[i].productId].storeId = data.storeId
                /\ products[data.adjustments[i].productId].currentStock #
                      data.adjustments[i].newStock

(***************************************************************************)
(* Frame properties of the update paths.                                   *)
(***************************************************************************)
\* C15: currentStock changes only through the stock ledger: every step that
\* changes a product's currentStock also writes a StockMovement for that
\* product; in particular a product update (PUT /products/:id) and a
\* pushed UPDATE on 'products' never change currentStock.
C15_StockOnlyViaLedger ==
    [][\A p \in DOMAIN products :
          (/\ p \in DOMAIN products'
           /\ products'[p].currentStock # products[p].currentStock)
          => \E m \in (DOMAIN movements') \ (DOMAIN movements) :
                movements'[m].productId = p]_vars

\* C16: quantity, unitPrice, totalAmount, saleType and productId of a sale
\* never change after its creation: updateSale and a pushed UPDATE on
\* 'sales' change client metadata only.
C16_SaleImmutable ==
    [][\A id \in DOMAIN sales :
          id \in DOMAIN sales' =>
             /\ sales'[id].quantity = sales[id].quantity
             /\ sales'[id].unitPrice = sales[id].unitPrice
             /\ sales'[id].totalAmount = sales[id].totalAmount
             /\ sales'[id].saleType = sales[id].saleType
             /\ sales'[id].productId = sales[id].productId]_vars

\* C17: amount, paidAmount, remainingAmount and status of a debt change
\* only in a step of addPayment, which inserts a payment for that debt: a
\* debt update (PUT /debts/:id) and a pushed UPDATE on 'debts' leave the
\* four columns as they are.
C17_DebtOnlyByPayment ==
    [][\A id \in DOMAIN debts :
          (/\ id \in DOMAIN debts'
           /\ \/ debts'[id].amount # debts[id].amount
              \/ debts'[id].paidAmount # debts[id].paidAmount
              \/ debts'[id].remainingAmount # debts[id].remainingAmount
              \/ debts'[id].status # debts[id].status)
          => /\ response'.op = "addPayment"
             /\ \E k \in (DOMAIN payments') \ (DOMAIN payments) :
                   payments'[k].debtId = id]_vars

(***************************************************************************)
(* Properties of the sync endpoints.                                       *)
(***************************************************************************)
CreateItems == {item \in SyncItems : item.action = "CREATE"}

\* The table of d an item is about (none for an unsupported table).
TableOf(d, tableName) ==
    CASE tableName = "products" -> d.products
      [] tableName = "sales" -> d.sales
      [] tableName = "stock_movements" -> d.movements
      [] tableName = "debts" -> d.debts
      [] OTHER -> <<>>

\* C18: a pushed CREATE is idempotent on the record id: pushing the same
\* item again, in a second request or twice in one batch, leaves the server
\* as the first push left it, with one row under that id when the first
\* push was applied and as many rows as after the first push; the repeated
\* item is answered with a per-item result (an error once the row exists).
C18_CreateIdempotent ==
    \A user \in Callers, item \in CreateItems :
        LET first == Push(DB, user, <<item>>)
            second == Push(first.db, user, <<item>>)
            twice == Push(DB, user, <<item, item>>)
            rows1 == TableOf(first.db, item.tableName)
            rows2 == TableOf(second.db, item.tableName)
        IN /\ second.db = first.db
           /\ twice.db = first.db
           /\ Cardinality(DOMAIN rows2) = Cardinality(DOMAIN rows1)
           /\ Len(second.results) = 1
           /\ second.results[1].status \in {"success", "error"}
           /\ first.results[1].status = "success" =>
                 /\ item.recordId \in DOMAIN rows2
                 /\ second.results[1].status = "error"
                 /\ twice.results[2].status = "error"

\* A batch holding one CREATE twice was pushed: the first copy was applied,
\* the second refused, and the row is there.
C18_Witness ==
    /\ response.op = "push"
    /\ response.status = <<"success", "error">>
    /\ \E user \in Callers, item \in CreateItems :
          /\ item.tableName = "stock_movements"
          /\ item.recordId \in DOMAIN movements
          /\ DOMAIN sales = {}
          /\ DOMAIN products = ProductIds
          /\ Push(DB, user, <<item>>).results[1].status = "error"

\* The rows a caller may be sent: those of the caller's store for a
\* non-admin, those of every store for an admin, changed after `since`.
PullExpected(d, stamps, user, since) ==
    LET mine(row) == user.role = "ADMIN" \/ row.storeId = user.storeId
    IN {Change("products", p, d.products[p]) :
           p \in {x \in DOMAIN d.products :
                     mine(d.products[x]) /\ stamps.products[x] > since}}
       \cup
       {Change("sales", i, d.sales[i]) :
           i \in {x \in DOMAIN d.sales :
                     mine(d.sales[x]) /\ stamps.sales[x] > since}}
       \cup
       {Change("debts", i, d.debts[i]) :
           i \in {x \in DOMAIN d.debts :
                     mine(d.debts[x]) /\ stamps.debts[x] > since}}

\* C19: pull is read-only and store-scoped: a non-admin caller, also one
\* with no store, is sent exactly the product, sale and debt rows of the
\* caller's own store whose updatedAt is strictly after `since`, an admin
\* those of every store, each tagged UPDATE; the database is unchanged.
C19_PullScoped ==
    \A user \in PullCallers, since \in Times, stamps \in Stamps(DB) :
        LET r == Pull(DB, stamps, user, since)
        IN /\ r.db = DB
           /\ r.changes = PullExpected(DB, stamps, user, since)
           /\ \A c \in r.changes : c.action = "UPDATE"

\* The items the retry is to take: the caller's FAILED items that have
\* attempts left according to their own maxAttempts.
Retryable(queue, user) ==
    {k \in DOMAIN queue : /\ queue[k].userId = user.id
                          /\ queue[k].status = "FAILED"
                          /\ queue[k].attempts < queue[k].maxAttempts}

\* C20: retry takes exactly the caller's FAILED items with attempts below
\* the item's maxAttempts, sets each to PENDING with attempts + 1 and no
\* error, and resubmits them through the push path, so that pushing such an
\* item once more changes nothing; every other item stays as it is.
C20_RetrySelection ==
    \A user \in Callers :
        LET r == Retry(DB, syncQueue, user)
        IN \A k \in DOMAIN syncQueue :
              IF k \in Retryable(syncQueue, user)
              THEN /\ r.queue[k] = [syncQueue[k] EXCEPT
                                       !.status = "PENDING",
                                       !.attempts = @ + 1,
                                       !.error = NoError]
                   /\ Push(r.db, user, <<syncQueue[k].item>>).db = r.db
              ELSE r.queue[k] = syncQueue[k]

(***************************************************************************)
(* Properties of manual stock movements.                                   *)
(***************************************************************************)
\* The signed change of stock a movement request asks for.
Delta(data) ==
    IF data.type = "IN" THEN Abs(data.quantity)
    ELSE IF data.type \in {"OUT", "TRANSFER"} THEN 0 - Abs(data.quantity)
    ELSE data.quantity

\* C24: createStockMovement takes the signed delta from the type (IN:
\* +|quantity|, OUT and TRANSFER: -|quantity|, ADJUSTMENT: the signed
\* quantity), sets currentStock to max(0, currentStock + delta), stores
\* |quantity| as the movement's quantity, and rejects an OUT with
\* currentStock < |quantity| without changing anything.
C24_MovementDelta ==
    \A user \in Callers, data \in MovementRequests :
        LET r == CreateStockMovement(DB, user, data, 0)
            new == (DOMAIN r.db.movements) \ (DOMAIN movements)
        IN /\ r.status = 201 =>
                LET before == products[data.productId].currentStock
                IN /\ r.db.products[data.productId].currentStock =
                         (IF before + Delta(data) < 0 THEN 0
                          ELSE before + Delta(data))
                   /\ Cardinality(new) = 1
                   /\ \A m \in new :
                         /\ r.db.movements[m].quantity = Abs(data.quantity)
                         /\ r.db.movements[m].quantity >= 0
                         /\ r.db.movements[m].type = data.type
                         /\ r.db.movements[m].productId = data.productId
           /\ (/\ data.type = "OUT"
               /\ ~StoreAccessDenied(user, data.storeId)
               /\ data.productId \in DOMAIN products
               /\ products[data.productId].currentStock < Abs(data.quantity))
              => /\ r.status = 400
                 /\ \A failAt \in 0..2 :
                       CreateStockMovement(DB, user, data, failAt).db = DB

\* An IN and an OUT movement were both applied.
C24_Witness ==
    /\ response.op = "createStockMovement"
    /\ response.status = 201
    /\ \E m, n \in DOMAIN movements :
          /\ movements[m].type = "IN"
          /\ movements[n].type = "OUT"
          /\ movements[n].quantity > 0

\* C27: every movement records the change of stock that was applied: the
\* quantity of a movement written in a step equals the absolute difference
\* of its product's currentStock before and after the step, also when the
\* result is clamped to zero.
C27_MovementMatchesChange ==
    [][\A m \in (DOMAIN movements') \ (DOMAIN movements) :
          LET p == movements'[m].productId
          IN movements'[m].quantity =
                Abs(products'[p].currentStock - products[p].currentStock)]_vars

(***************************************************************************)
(* Property of product creation.                                           *)
(***************************************************************************)
\* C25: a product created with initial stock s has exactly one IN movement
\* of quantity s when s > 0 and none when s = 0, in every state, also
\* after a failed insert of the movement.  (Nothing but product creation
\* runs here, so a created product still holds its initial stock.)
C25_InitialStockAudited ==
    \A p \in (DOMAIN products) \ ProductIds :
        LET ms == {m \in DOMAIN movements : movements[m].productId = p}
        IN IF products[p].currentStock > 0
           THEN /\ Cardinality(ms) = 1
                /\ \A m \in ms : /\ movements[m].type = "IN"
                                  /\ movements[m].quantity =
                                        products[p].currentStock
           ELSE ms = {}

(***************************************************************************)
(* Property of concurrent payments.                                        *)
(***************************************************************************)
RECURSIVE SumAmounts(_, _)
SumAmounts(t, ids) ==
    IF ids = {} THEN 0
    ELSE LET i == CHOOSE x \in ids : TRUE
         IN t[i].amount + SumAmounts(t, ids \ {i})

\* The total of the payments recorded for a debt.
PaidTotal(id) ==
    SumAmounts(payments, {k \in DOMAIN payments : payments[k].debtId = id})

\* C26: for every debt, paidAmount is the sum of the amounts of its
\* payments and that sum does not exceed the debt's amount (remainingAmount
\* >= 0), however concurrent addPayment requests on the debt interleave.
C26_PaymentsAddUp ==
    \A id \in DOMAIN debts :
        /\ debts[id].paidAmount = PaidTotal(id)
        /\ PaidTotal(id) <= debts[id].amount
        /\ debts[id].remainingAmount >= 0

(***************************************************************************)
(* Property of the server sync queue under concurrency.                    *)
(***************************************************************************)
\* C21: every queue item has attempts <= maxAttempts in every reachable
\* state, and an item with attempts >= maxAttempts that is FAILED stays
\* FAILED in every step, however concurrent retries and 'sync:complete'
\* messages interleave.
C21_AttemptsCapped ==
    /\ [](\A k \in DOMAIN syncQueue :
             syncQueue[k].attempts <= syncQueue[k].maxAttempts)
    /\ [][\A k \in DOMAIN syncQueue :
             (/\ syncQueue[k].status = "FAILED"
              /\ syncQueue[k].attempts >= syncQueue[k].maxAttempts)
             => syncQueue'[k].status = "FAILED"]_vars

(***************************************************************************)
(* Properties of the client's offline queue.                               *)
(***************************************************************************)
\* Every entry of the two lists.
Entries == syncStore.pendingItems \o syncStore.failedItems

EntriesNext == syncStore'.pendingItems \o syncStore'.failedItems

\* The statuses under which the item `id` is held; none once it is removed.
StatusesFor(items, id) ==
    {items[i].status : i \in {j \in 1..Len(items) : items[j].id = id}}

AttemptsFor(items, id) ==
    {items[i].attempts : i \in {j \in 1..Len(items) : items[j].id = id}}

\* The transitions of the item state machine; FAILED to PROCESSING is the
\* retry followed at once by the start of the push.
Transition(from, to, attempts, attemptsNext) ==
    \/ to = from
    \/ from = {} /\ to = {"PENDING"} /\ attemptsNext = {0}
    \/ from = {"PENDING"} /\ to = {"PROCESSING"}
    \/ from = {"PROCESSING"} /\ to \in {{}, {"FAILED"}}
    \/ /\ from = {"FAILED"}
       /\ to \in {{"PENDING"}, {"PROCESSING"}}
       /\ \A a \in attempts : a < ClientRetryLimit

\* C22: in every step each item id moves along PENDING -> PROCESSING ->
\* {removed | FAILED}, is created PENDING with attempts 0, and goes from
\* FAILED back to PENDING only while its attempts are below 3; no step
\* changes an item's status in any other way.
C22_ItemStateMachine ==
    [][\A id \in 1..MaxItems :
          Transition(StatusesFor(Entries, id), StatusesFor(EntriesNext, id),
                     AttemptsFor(Entries, id), AttemptsFor(EntriesNext, id))
      ]_vars

\* C23: against a server that never accepts an item, no item id is sent
\* more than 3 times, every FAILED entry's attempts equal the number of
\* failed sends of its id, and an id whose sends failed 3 times is held as
\* FAILED and is not PENDING again.
C23_RetryBounded ==
    /\ \A id \in DOMAIN pushes : pushes[id].sent <= ClientRetryLimit
    /\ \A i \in 1..Len(Entries) :
          Entries[i].status = "FAILED"
          => Entries[i].attempts = pushes[Entries[i].id].failed
    /\ \A id \in DOMAIN pushes :
          pushes[id].failed >= ClientRetryLimit
          => /\ "FAILED" \in StatusesFor(Entries, id)
             /\ "PENDING" \notin StatusesFor(Entries, id)

\* C28: no item id occurs twice in pendingItems and failedItems together.
C28_IdsUnique ==
    \A i, j \in 1..Len(Entries) : Entries[i].id = Entries[j].id => i = j

\* C29: whenever no syncToServer call is running (isSyncing is false),
\* pendingItems holds no PROCESSING item.
C29_NoProcessingLeft ==
    ~syncStore.isSyncing
    => \A i \in 1..Len(syncStore.pendingItems) :
          syncStore.pendingItems[i].status # "PROCESSING"

\* C30: a retryFailedItems call made while the store is online and idle
\* sends every item that is FAILED with attempts below 3.
C30_FailedItemsResent ==
    (syncStore.isOnline /\ ~syncStore.isSyncing)
    => \A i \in 1..Len(Entries) :
          (Entries[i].status = "FAILED"
           /\ Entries[i].attempts < ClientRetryLimit)
          => Entries[i].id \in
               IdsOf(RetryFailedItems(syncStore, call, pushes)
                        .call.itemsToSync)

=============================================================================
